---- MODULE Spec2Model ----
(***************************************************************************)
(* Model of the two pipelines of the repository:                           *)
(*   - the encoder, excel_to_json of Ignition_UDT_Creation.py              *)
(*     (spreadsheet rows -> tag records -> UDT document -> JSON file);     *)
(*   - the decoder, extract_udt_tags.py                                    *)
(*     (JSON document -> flat tag entries -> report or CSV).               *)
(*                                                                         *)
(* Text that the code inspects character by character (cells of the        *)
(* spreadsheet) is a sequence of one-character strings; Python str values  *)
(* held in the built objects are TLA+ strings.  A Python dict is a         *)
(* sequence of <<key, value>> pairs in insertion order.                    *)
(***************************************************************************)
EXTENDS Integers, Sequences, FiniteSets, TLC

VARIABLES
    pipeline,   \* "encoder" or "decoder": which script is running
    pc,         \* position of the running script
    excel,      \* encoder input: the rows of the spreadsheet
    udtName,    \* encoder input: sys.argv[2]
    df,         \* the data frame read by pd.read_excel
    idx,        \* number of data-frame rows the loop has consumed
    tags,       \* the list `tags` of excel_to_json
    outFile,    \* the output file on disk
    outFile0,   \* the output file as it was before the run
    status,     \* "running", or how the process ended: "exit0", "exit1"
    jsonIn,     \* decoder input file
    flat,       \* the list returned by parse_udt_file
    report      \* what the decoder printed or wrote as CSV

vars == <<pipeline, pc, excel, udtName, df, idx, tags, outFile, outFile0,
          status, jsonIn, flat, report>>

(***************************************************************************)
(* Bounds of the model.                                                    *)
(***************************************************************************)
MaxRows == 2      \* rows of a spreadsheet in the row-filter family
MaxTokens == 2    \* pipe-separated tokens of a stateValues cell
MaxKids == 2      \* children of the root tags list in the tree family

(***************************************************************************)
(* Characters and strings.                                                 *)
(***************************************************************************)
Upper == <<"A","B","C","D","E","F","G","H","I","J","K","L","M",
           "N","O","P","Q","R","S","T","U","V","W","X","Y","Z">>
Lower == <<"a","b","c","d","e","f","g","h","i","j","k","l","m",
           "n","o","p","q","r","s","t","u","v","w","x","y","z">>
Digits == <<"0","1","2","3","4","5","6","7","8","9">>

\* str.lower() on one character
LowerChar(c) ==
    IF \E k \in 1..Len(Upper) : Upper[k] = c
    THEN Lower[CHOOSE k \in 1..Len(Upper) : Upper[k] = c]
    ELSE c

\* str.lower()
StrLower(s) == [k \in 1..Len(s) |-> LowerChar(s[k])]

IsSpace(c) == c \in {" ", "\t", "\n"}

\* str.strip()
RECURSIVE LStrip(_)
LStrip(s) ==
    IF s # <<>> /\ IsSpace(Head(s)) THEN LStrip(Tail(s)) ELSE s

RECURSIVE RStrip(_)
RStrip(s) ==
    IF s # <<>> /\ IsSpace(s[Len(s)])
    THEN RStrip(SubSeq(s, 1, Len(s) - 1))
    ELSE s

Strip(s) == RStrip(LStrip(s))

\* str.split('|'): always at least one piece
RECURSIVE SplitFrom(_, _, _)
SplitFrom(s, k, cur) ==
    IF k > Len(s) THEN <<cur>>
    ELSE IF s[k] = "|" THEN <<cur>> \o SplitFrom(s, k + 1, <<>>)
    ELSE SplitFrom(s, k + 1, Append(cur, s[k]))

Split(s) == SplitFrom(s, 1, <<>>)

\* the Python str made of the characters of s
RECURSIVE Cat(_)
Cat(s) == IF s = <<>> THEN "" ELSE Head(s) \o Cat(Tail(s))

IsDigit(c) == \E k \in 1..10 : Digits[k] = c
DigitVal(c) == (CHOOSE k \in 1..10 : Digits[k] = c) - 1

\* str(n) for an int n >= 0
RECURSIVE IntChars(_)
IntChars(n) ==
    IF n < 10 THEN <<Digits[n + 1]>>
    ELSE Append(IntChars(n \div 10), Digits[(n % 10) + 1])

\* value of a non-empty sequence of decimal digits
RECURSIVE DigitsVal(_)
DigitsVal(s) ==
    IF s = <<>> THEN 0
    ELSE 10 * DigitsVal(SubSeq(s, 1, Len(s) - 1)) + DigitVal(s[Len(s)])

(***************************************************************************)
(* Spreadsheet cells as pandas delivers them, and Python values.           *)
(***************************************************************************)
NaN == [t |-> "nan"]
Txt(s) == [t |-> "str", c |-> s]
IntCell(n) == [t |-> "int", n |-> n]
FloatCell(n, f) == [t |-> "float", n |-> n, f |-> f]   \* the float n.f
TsCell == [t |-> "ts"]                                   \* a pandas Timestamp

PyNone == [t |-> "null"]
PyStr(s) == [t |-> "str", v |-> s]
PyInt(n) == [t |-> "num", v |-> n]
PyFloat(n, f) == [t |-> "float", n |-> n, f |-> f]
PyBool(b) == [t |-> "bool", v |-> b]
PyList(l) == [t |-> "list", v |-> l]
PyDict(d) == [t |-> "dict", v |-> d]
PyTs == [t |-> "ts"]

\* pd.notna(row.get(col))
notna(cell) == cell.t # "nan"

TsChars == <<"2","0","2","4","-","0","1","-","0","1",
             " ","0","0",":","0","0",":","0","0">>

\* the characters of str(row[col])
StrChars(cell) ==
    CASE cell.t = "str" -> cell.c
      [] cell.t = "int" -> IntChars(cell.n)
      [] cell.t = "float" -> IntChars(cell.n) \o <<".">> \o IntChars(cell.f)
      [] cell.t = "ts" -> TsChars
      [] OTHER -> <<"n","a","n">>

\* str(row[col])
str(cell) == PyStr(Cat(StrChars(cell)))

\* row.get(col): the cell's object, passed on unchanged
RowGet(cell) ==
    CASE cell.t = "str" -> PyStr(Cat(cell.c))
      [] cell.t = "int" -> PyInt(cell.n)
      [] cell.t = "float" -> PyFloat(cell.n, cell.f)
      [] cell.t = "ts" -> PyTs
      [] OTHER -> PyFloat(0, 0)

\* int(row[col]): [ok |-> FALSE] when int() raises.  Text is accepted when,
\* stripped, it is a non-empty run of decimal digits (signs and underscores
\* are not in the alphabet of the model's cells).
IntCoerce(cell) ==
    CASE cell.t = "int" -> [ok |-> TRUE, n |-> cell.n]
      [] cell.t = "float" -> [ok |-> TRUE, n |-> cell.n]
      [] cell.t = "str" ->
            LET s == Strip(cell.c)
            IN  IF s # <<>> /\ \A k \in 1..Len(s) : IsDigit(s[k])
                THEN [ok |-> TRUE, n |-> DigitsVal(s)]
                ELSE [ok |-> FALSE, n |-> 0]
      [] OTHER -> [ok |-> FALSE, n |-> 0]

(***************************************************************************)
(* Python dicts: insertion-ordered.                                        *)
(***************************************************************************)
Has(d, k) == \E j \in 1..Len(d) : d[j][1] = k

Get(d, k, default) ==
    IF Has(d, k) THEN d[CHOOSE j \in 1..Len(d) : d[j][1] = k][2] ELSE default

\* d[k] = v
DictSet(d, k, v) ==
    IF Has(d, k)
    THEN [j \in 1..Len(d) |-> IF d[j][1] = k THEN <<k, v>> ELSE d[j]]
    ELSE Append(d, <<k, v>>)

(***************************************************************************)
(* Encoder: building one tag record from one row (excel_to_json).          *)
(***************************************************************************)
Fields == {"name", "dataType", "documentation", "engUnit", "valueSource",
           "tagType", "alarmMode", "alarmName", "historyEnabled",
           "historySampleRate", "historySampleRateUnits",
           "shortDescription", "stateLabels", "stateValues"}

\* mutant: the name test is dropped, every row yields a tag
HasName_Always(row) == TRUE

\* `if pd.notna(row.get('name'))`
HasName(row) == notna(row.name)

\* row.get(col, default) if pd.notna(row.get(col)) else default
GetOrDefault(cell, default) ==
    IF notna(cell) THEN RowGet(cell) ELSE PyStr(default)

\* ---------- Alarms ----------
AlarmFields(tag, row) ==
    IF notna(row.alarmMode)
    THEN LET alarm0 == <<<<"mode", str(row.alarmMode)>>>>
             alarm == IF notna(row.alarmName)
                      THEN DictSet(alarm0, "name", str(row.alarmName))
                      ELSE DictSet(alarm0, "name", PyStr("Alarm"))
         IN  DictSet(tag, "alarms", PyList(<<PyDict(alarm)>>))
    ELSE tag

\* ---------- Core tag fields ----------
CoreFields(tag, row) ==
    LET t1 == DictSet(tag, "valueSource", GetOrDefault(row.valueSource, "opc"))
        t2 == DictSet(t1, "dataType", GetOrDefault(row.dataType, "Float4"))
        t3 == IF notna(row.documentation)
              THEN DictSet(t2, "documentation", str(row.documentation))
              ELSE t2
        t4 == DictSet(t3, "name", str(row.name))
        t5 == DictSet(t4, "tagType", GetOrDefault(row.tagType, "AtomicTag"))
    IN  IF notna(row.engUnit)
        THEN DictSet(t5, "engUnit", str(row.engUnit))
        ELSE t5

TrueWords == {<<"t","r","u","e">>, <<"1">>, <<"y","e","s">>, <<"y">>}
FalseWords == {<<"f","a","l","s","e">>, <<"0">>, <<"n","o">>, <<"n">>}

\* the body of the zip loop: one state from one value token
StateValue(val) ==
    LET v == StrLower(Strip(val))
    IN  IF v \in TrueWords THEN PyBool(TRUE)
        ELSE IF v \in FalseWords THEN PyBool(FALSE)
        ELSE PyStr(Cat(v))

Min(a, b) == IF a < b THEN a ELSE b

\* for lbl, val in zip(labels, values_raw): states.append({...})
States(labels, values_raw) ==
    [k \in 1..Min(Len(labels), Len(values_raw)) |->
        PyDict(<<<<"label", PyStr(Cat(Strip(labels[k])))>>,
                 <<"value", StateValue(values_raw[k])>>>>)]

\* ---------- Metadata (Option B) ----------
MetadataFields(tag, row) ==
    IF notna(row.shortDescription)
    THEN LET md0 == <<<<"shortDescription", str(row.shortDescription)>>>>
             md == IF notna(row.stateLabels) /\ notna(row.stateValues)
                   THEN LET states == States(Split(StrChars(row.stateLabels)),
                                             Split(StrChars(row.stateValues)))
                        IN  IF states # <<>>
                            THEN DictSet(md0, "states", PyList(states))
                            ELSE md0
                   ELSE md0
         IN  DictSet(tag, "Metadata", PyDict(md))
    ELSE tag

\* mutant: a sample rate that does not coerce is kept as a null key
HistorizationFields_KeepFailed(tag, row) ==
    IF notna(row.historyEnabled)
    THEN LET h1 == DictSet(tag, "historyEnabled", PyStr("true"))
             h2 == IF notna(row.historySampleRateUnits)
                   THEN DictSet(h1, "historySampleRateUnits",
                                str(row.historySampleRateUnits))
                   ELSE h1
         IN  IF notna(row.historySampleRate)
             THEN DictSet(h2, "historySampleRate",
                          IF IntCoerce(row.historySampleRate).ok
                          THEN PyInt(IntCoerce(row.historySampleRate).n)
                          ELSE PyNone)
             ELSE h2
    ELSE tag

\* ---------- Historization ----------
HistorizationFields(tag, row) ==
    IF notna(row.historyEnabled)
    THEN LET h1 == DictSet(tag, "historyEnabled", PyStr("true"))
             h2 == IF notna(row.historySampleRateUnits)
                   THEN DictSet(h1, "historySampleRateUnits",
                                str(row.historySampleRateUnits))
                   ELSE h1
         IN  IF notna(row.historySampleRate)
                /\ IntCoerce(row.historySampleRate).ok
             THEN DictSet(h2, "historySampleRate",
                          PyInt(IntCoerce(row.historySampleRate).n))
             ELSE h2
    ELSE tag

\* the tag built by one iteration of the row loop
BuildTag(row) ==
    HistorizationFields(
        MetadataFields(
            CoreFields(
                AlarmFields(<<>>, row), row), row), row)

\* df.dropna(how='all')
RECURSIVE dropna(_)
dropna(rows) ==
    IF rows = <<>> THEN <<>>
    ELSE IF \E f \in Fields : notna(Head(rows)[f])
         THEN <<Head(rows)>> \o dropna(Tail(rows))
         ELSE dropna(Tail(rows))

(***************************************************************************)
(* Encoder: serializing the result (json.dump writes chunk by chunk).      *)
(***************************************************************************)
\* whether json can encode the value
RECURSIVE Serializable(_)
Serializable(v) ==
    CASE v.t = "ts" -> FALSE
      [] v.t = "list" -> \A k \in 1..Len(v.v) : Serializable(v.v[k])
      [] v.t = "dict" -> \A k \in 1..Len(v.v) : Serializable(v.v[k][2])
      [] OTHER -> TRUE

TagSerializable(tag) == \A k \in 1..Len(tag) : Serializable(tag[k][2])

NoFile == [exists |-> FALSE, kind |-> "none"]
OldFile == [exists |-> TRUE, kind |-> "old"]

\* the file after json.dump(result, f, indent=2) and the close of the
\* with-block: everything up to the first value json cannot encode
JsonDump(name, tagList) ==
    IF \A k \in 1..Len(tagList) : TagSerializable(tagList[k])
    THEN [exists |-> TRUE, kind |-> "json", name |-> name, tags |-> tagList,
          partial |-> <<>>, dangling |-> "", complete |-> TRUE]
    ELSE LET bad == CHOOSE k \in 1..Len(tagList) :
                        /\ ~TagSerializable(tagList[k])
                        /\ \A j \in 1..(k - 1) : TagSerializable(tagList[j])
             tag == tagList[bad]
             key == CHOOSE k \in 1..Len(tag) :
                        /\ ~Serializable(tag[k][2])
                        /\ \A j \in 1..(k - 1) : Serializable(tag[j][2])
         IN  [exists |-> TRUE, kind |-> "json", name |-> name,
              tags |-> SubSeq(tagList, 1, bad - 1),
              partial |-> SubSeq(tag, 1, key - 1),
              dangling |-> tag[key][1], complete |-> FALSE]

\* result = {"name": udt_name, "tagType": "UdtType", "tags": tags}
Result(name, tagList) ==
    PyDict(<<<<"name", PyStr(name)>>,
             <<"tagType", PyStr("UdtType")>>,
             <<"tags", PyList([k \in 1..Len(tagList) |-> PyDict(tagList[k])])>>>>)

(***************************************************************************)
(* Encoder inputs.                                                         *)
(***************************************************************************)
EmptyRow == [f \in Fields |-> NaN]

T_A == Txt(<<"A">>)
T_B == Txt(<<"B">>)

\* spreadsheets for the row filter and for serialization: rows with or
\* without a name, with text, a number or a date in pass-through columns
BasicRows ==
    {[EmptyRow EXCEPT !.name = n, !.valueSource = vs] :
        n \in {NaN, T_A, IntCell(7)},
        vs \in {NaN, Txt(<<"m","e","m">>), TsCell}}

RECURSIVE SeqsUpTo(_, _)
SeqsUpTo(S, n) ==
    IF n = 0 THEN {<<>>}
    ELSE LET shorter == SeqsUpTo(S, n - 1)
         IN  shorter \cup {Append(s, x) : s \in shorter, x \in S}

BasicSheets == SeqsUpTo(BasicRows, MaxRows)

Opt(cell) == {NaN, cell}

\* one named row carrying any subset of the optional fields
OrderRows ==
    {[name |-> T_A, dataType |-> dt, documentation |-> d, engUnit |-> eu,
      valueSource |-> vs, tagType |-> tt, alarmMode |-> am, alarmName |-> an,
      historyEnabled |-> he, historySampleRate |-> hr,
      historySampleRateUnits |-> hu, shortDescription |-> sd,
      stateLabels |-> sl, stateValues |-> sv] :
        dt \in Opt(Txt(<<"I","n","t","4">>)), d \in Opt(Txt(<<"d">>)),
        eu \in Opt(Txt(<<"V">>)), vs \in Opt(Txt(<<"m","e","m">>)),
        tt \in Opt(Txt(<<"U","d","t">>)),
        am \in Opt(Txt(<<"W","h","e","n","T","r","u","e">>)),
        an \in Opt(Txt(<<"H","i">>)), he \in Opt(Txt(<<"x">>)),
        hr \in {NaN, IntCell(5), Txt(<<"a","b","c">>)},
        hu \in Opt(Txt(<<"S","e","c">>)), sd \in Opt(Txt(<<"s">>)),
        sl \in Opt(Txt(<<"a","|","b">>)), sv \in Opt(Txt(<<"0","|","1">>))}

\* pipe-joined cells
RECURSIVE JoinPipe(_)
JoinPipe(toks) ==
    IF Len(toks) = 1 THEN toks[1]
    ELSE toks[1] \o <<"|">> \o JoinPipe(Tail(toks))

ValueTokens ==
    {<<" ","T","r","u","e"," ">>, <<"1">>,
     <<"Y","E","S">>, <<"y">>, <<"f","a","l","s","e">>, <<"0">>,
     <<"N","o">>, <<"n">>, <<"T","r","i","p">>, <<>>, <<" ","x"," ">>}

LabelTokens == {<<"C","l","o","s","e","d">>, <<" ","O","p","e","n"," ">>}

ValueCells == {Txt(JoinPipe(s)) : s \in SeqsUpTo(ValueTokens, MaxTokens) \ {<<>>}}
LabelCells == {Txt(JoinPipe(s)) : s \in SeqsUpTo(LabelTokens, 2) \ {<<>>}}

\* one named row with a state table
StateRows ==
    {[EmptyRow EXCEPT !.name = T_A, !.shortDescription = sd,
                      !.stateLabels = sl, !.stateValues = sv] :
        sd \in Opt(Txt(<<"s">>)),
        sl \in {NaN, Txt(<<>>)} \cup LabelCells,
        sv \in {NaN, IntCell(1)} \cup ValueCells}

\* one named row with historization fields of every kind of content
HistoryRows ==
    {[EmptyRow EXCEPT !.name = T_B, !.historyEnabled = he,
                      !.historySampleRate = hr,
                      !.historySampleRateUnits = hu] :
        he \in {NaN, Txt(<<"x">>), Txt(<<"f","a","l","s","e">>), IntCell(0)},
        hr \in {NaN, IntCell(5), FloatCell(2, 5), Txt(<<"1","0">>),
                Txt(<<" ","7"," ">>), Txt(<<"a","b","c">>),
                Txt(<<"2",".","5">>), Txt(<<>>), TsCell},
        hu \in Opt(Txt(<<"S","e","c">>))}

Sheets ==
    BasicSheets
    \cup {<<r>> : r \in OrderRows \cup StateRows \cup HistoryRows}
    \cup {<<EmptyRow, r>> : r \in HistoryRows}

(***************************************************************************)
(* Encoder actions.                                                        *)
(***************************************************************************)
EncIdle == /\ jsonIn = [exists |-> FALSE, valid |-> FALSE, data |-> PyNone]
           /\ flat = <<>>
           /\ report = [kind |-> "none"]

InitEncoder ==
    /\ pipeline = "encoder"
    /\ pc = "start"
    /\ \/ excel \in {[exists |-> TRUE, readable |-> TRUE, rows |-> s] :
                        s \in Sheets}
       \/ excel \in {[exists |-> e, readable |-> FALSE, rows |-> <<>>] :
                        e \in BOOLEAN}
    /\ udtName \in (IF excel.rows \in BasicSheets THEN {"", "U"} ELSE {"U"})
    /\ outFile0 \in (IF excel.rows \in BasicSheets THEN {NoFile, OldFile}
                     ELSE {NoFile})
    /\ outFile = outFile0
    /\ df = <<>>
    /\ idx = 0
    /\ tags = <<>>
    /\ status = "running"
    /\ EncIdle

\* df = pd.read_excel(excel_file); df = df.dropna(how='all'); tags = []
ReadExcel ==
    /\ pipeline = "encoder" /\ pc = "start"
    /\ excel.exists /\ excel.readable
    /\ df' = dropna(excel.rows)
    /\ idx' = 0
    /\ tags' = <<>>
    /\ pc' = "loop"
    /\ UNCHANGED <<pipeline, excel, udtName, outFile, outFile0, status,
                   jsonIn, flat, report>>

\* except FileNotFoundError: print(...); sys.exit(1)
ReadExcelNotFound ==
    /\ pipeline = "encoder" /\ pc = "start"
    /\ ~excel.exists
    /\ pc' = "exit"
    /\ status' = "exit1"
    /\ UNCHANGED <<pipeline, excel, udtName, df, idx, tags, outFile, outFile0,
                   jsonIn, flat, report>>

\* except Exception as e: print(...); sys.exit(1)
ReadExcelError ==
    /\ pipeline = "encoder" /\ pc = "start"
    /\ excel.exists /\ ~excel.readable
    /\ pc' = "exit"
    /\ status' = "exit1"
    /\ UNCHANGED <<pipeline, excel, udtName, df, idx, tags, outFile, outFile0,
                   jsonIn, flat, report>>

\* one iteration of `for _, row in df.iterrows()`
ProcessRow ==
    /\ pipeline = "encoder" /\ pc = "loop"
    /\ idx < Len(df)
    /\ idx' = idx + 1
    /\ tags' = IF HasName(df[idx + 1])
               THEN Append(tags, BuildTag(df[idx + 1]))
               ELSE tags
    /\ UNCHANGED <<pipeline, pc, excel, udtName, df, outFile, outFile0,
                   status, jsonIn, flat, report>>

\* open(output_file, 'w') raises OSError: nothing is created
OpenFails ==
    /\ pipeline = "encoder" /\ pc = "loop"
    /\ idx = Len(df)
    /\ pc' = "exit"
    /\ status' = "exit1"
    /\ UNCHANGED <<pipeline, excel, udtName, df, idx, tags, outFile, outFile0,
                   jsonIn, flat, report>>

\* with open(...) as f: json.dump(result, f, ...) runs to the end;
\* the prints; return result; the script ends
WriteOutput ==
    /\ pipeline = "encoder" /\ pc = "loop"
    /\ idx = Len(df)
    /\ JsonDump(udtName, tags).complete
    /\ outFile' = JsonDump(udtName, tags)
    /\ pc' = "done"
    /\ status' = "exit0"
    /\ UNCHANGED <<pipeline, excel, udtName, df, idx, tags, outFile0,
                   jsonIn, flat, report>>

\* json.dump raises TypeError after open() truncated the file and the
\* encoder wrote its first chunks; except Exception: sys.exit(1)
WriteOutputFails ==
    /\ pipeline = "encoder" /\ pc = "loop"
    /\ idx = Len(df)
    /\ ~JsonDump(udtName, tags).complete
    /\ outFile' = JsonDump(udtName, tags)
    /\ pc' = "exit"
    /\ status' = "exit1"
    /\ UNCHANGED <<pipeline, excel, udtName, df, idx, tags, outFile0,
                   jsonIn, flat, report>>


(***************************************************************************)
(* Decoder: the flattening walk of extract_udt_tags.py.                    *)
(***************************************************************************)
\* Python truth value
Truthy(v) ==
    CASE v.t = "null" -> FALSE
      [] v.t = "bool" -> v.v
      [] v.t = "num" -> v.v # 0
      [] v.t = "str" -> v.v # ""
      [] v.t = "list" -> v.v # <<>>
      [] v.t = "dict" -> v.v # <<>>
      [] OTHER -> TRUE

\* how an f-string renders the value
Format(v) ==
    CASE v.t = "str" -> v.v
      [] v.t = "null" -> "None"
      [] v.t = "num" -> Cat(IntChars(v.v))
      [] v.t = "bool" -> IF v.v THEN "True" ELSE "False"
      [] OTHER -> "?"

\* name = tag_name or tag_data.get('name', 'Unknown')
tag_name_of(tag_data, tag_name) ==
    IF Truthy(tag_name) THEN tag_name
    ELSE Get(tag_data, "name", PyStr("Unknown"))

\* full_path = f"{parent_path}/{name}" if parent_path else name
full_path(parent_path, name) ==
    IF parent_path # "" THEN parent_path \o "/" \o Format(name)
    ELSE Format(name)

\* mutant: the alarms key counts even when its list is empty
has_alarm_KeyOnly(tag_data) ==
    IF Has(tag_data, "alarms") THEN "Yes"
    ELSE IF Has(tag_data, "alarmConfig")
            /\ Truthy(Get(tag_data, "alarmConfig", PyNone))
    THEN "Yes"
    ELSE "No"

\* the alarm check of process_tag
has_alarm(tag_data) ==
    IF Has(tag_data, "alarms") /\ Truthy(Get(tag_data, "alarms", PyNone))
    THEN "Yes"
    ELSE IF Has(tag_data, "alarmConfig")
            /\ Truthy(Get(tag_data, "alarmConfig", PyNone))
    THEN "Yes"
    ELSE "No"

\* the history check of process_tag
has_history(tag_data) ==
    IF Has(tag_data, "historyEnabled")
       /\ Truthy(Get(tag_data, "historyEnabled", PyNone))
    THEN "Yes"
    ELSE IF Has(tag_data, "historicalDeadband")
            \/ Has(tag_data, "historyProvider")
    THEN "Yes"
    ELSE "No"

\* tag_info of process_tag
tag_info(tag_data, parent_path, tag_name) ==
    [tag |-> full_path(parent_path, tag_name_of(tag_data, tag_name)),
     documentation |-> Get(tag_data, "documentation", PyStr("")),
     alarm |-> has_alarm(tag_data),
     history |-> has_history(tag_data)]

RECURSIVE process_tag(_, _, _)
RECURSIVE tags_of_list(_, _)
RECURSIVE tags_of_items(_, _)

\* for tag in tags_list: tags.extend(process_tag(tag, parent_path))
tags_of_list(tags_list, parent_path) ==
    IF tags_list = <<>> THEN <<>>
    ELSE process_tag(Head(tags_list).v, parent_path, PyNone)
         \o tags_of_list(Tail(tags_list), parent_path)

\* for name, data in d.items(): tags.extend(process_tag(data, parent_path, name))
tags_of_items(items, parent_path) ==
    IF items = <<>> THEN <<>>
    ELSE process_tag(Head(items)[2].v, parent_path, PyStr(Head(items)[1]))
         \o tags_of_items(Tail(items), parent_path)

\* the list/mapping dispatch on a 'tags' value
tags_of(tag_data, parent_path) ==
    IF Has(tag_data, "tags")
    THEN LET nested == Get(tag_data, "tags", PyNone)
         IN  IF nested.t = "list" THEN tags_of_list(nested.v, parent_path)
             ELSE IF nested.t = "dict" THEN tags_of_items(nested.v, parent_path)
             ELSE <<>>
    ELSE <<>>

process_tag(tag_data, parent_path, tag_name) ==
    <<tag_info(tag_data, parent_path, tag_name)>>
    \o tags_of(tag_data,
               full_path(parent_path, tag_name_of(tag_data, tag_name)))

process_parameter(param_data, parent_path) ==
    LET name == Get(param_data, "name", PyStr("Unknown"))
    IN  <<[tag |-> IF parent_path # ""
                   THEN parent_path \o "/[PARAM]" \o Format(name)
                   ELSE "[PARAM]" \o Format(name),
           documentation |-> Get(param_data, "documentation", PyStr("")),
           alarm |-> "No",
           history |-> "No"]>>

RECURSIVE params_of_list(_, _)
params_of_list(params, parent_path) ==
    IF params = <<>> THEN <<>>
    ELSE process_parameter(Head(params).v, parent_path)
         \o params_of_list(Tail(params), parent_path)

extract_tags(udt_data, parent_path) ==
    IF udt_data.t = "dict"
    THEN LET d == udt_data.v
             fromTags == tags_of(d, parent_path)
             fromParams ==
                 IF Has(d, "parameters")
                    /\ Get(d, "parameters", PyNone).t = "list"
                 THEN params_of_list(Get(d, "parameters", PyNone).v,
                                     parent_path)
                 ELSE <<>>
             fromType ==
                 IF Has(d, "typeId") \/ Has(d, "tagType")
                 THEN process_tag(d, parent_path, PyNone)
                 ELSE <<>>
         IN  fromTags \o fromParams \o fromType
    ELSE <<>>

\* the blocks print_tags prints, then the total
print_tags(entries) ==
    [kind |-> "printed",
     blocks |-> [k \in 1..Len(entries) |->
                    [index |-> k,
                     tag |-> entries[k].tag,
                     documentation |->
                         IF Truthy(entries[k].documentation)
                         THEN Format(entries[k].documentation)
                         ELSE "(none)",
                     alarm |-> entries[k].alarm,
                     history |-> entries[k].history]],
     total |-> Len(entries)]

\* the file export_to_csv writes (csv renders None as the empty field)
export_to_csv(entries) ==
    IF entries = <<>> THEN [kind |-> "nothing"]
    ELSE [kind |-> "csv",
          header |-> <<"tag", "documentation", "alarm", "history">>,
          rows |-> [k \in 1..Len(entries) |->
                      <<entries[k].tag,
                        IF entries[k].documentation.t = "null" THEN ""
                        ELSE Format(entries[k].documentation),
                        entries[k].alarm, entries[k].history>>]]

\* json.load of the file the encoder wrote
json_load(file) == Result(file.name, file.tags)

(***************************************************************************)
(* Decoder inputs.                                                         *)
(***************************************************************************)
Pair(k, v) == <<<<k, v>>>>

NameOpts == {<<>>, Pair("name", PyStr("")), Pair("name", PyStr("A"))}

\* leaves
N0 == {PyDict(n) : n \in NameOpts}

\* nodes with at most one child, given as a list or as a mapping
NestedOpts ==
    {<<>>, Pair("tags", PyList(<<>>))}
    \cup {Pair("tags", PyList(<<c>>)) : c \in N0}
    \cup {Pair("tags", PyDict(Pair(k, c))) : k \in {"", "K"}, c \in N0}

N1 == {PyDict(n \o t) : n \in NameOpts \ {<<>>}, t \in NestedOpts}

\* the walk: a root with a tags list of up to MaxKids subtrees
TreeDocs == {PyDict(Pair("tags", PyList(s))) : s \in SeqsUpTo(N1, MaxKids)}

LeafA == PyDict(Pair("name", PyStr("A")))
LeafB == PyDict(Pair("name", PyStr("B")))
NodeAB == PyDict(Pair("name", PyStr("A")) \o Pair("tags", PyList(<<LeafB>>)))

ParamP == Pair("name", PyStr("P"))

\* the root dispatch: every combination of the three triggers
RootDocs ==
    {PyDict(n \o ty \o pa \o tg) :
        n \in {<<>>, Pair("name", PyStr("")), Pair("name", PyStr("U"))},
        ty \in {<<>>, Pair("typeId", PyStr("x")),
                Pair("tagType", PyStr("UdtType"))},
        pa \in {<<>>, Pair("parameters", PyList(<<>>)),
                Pair("parameters", PyDict(<<>>)),
                Pair("parameters", PyList(<<PyDict(ParamP)>>)),
                Pair("parameters", PyList(<<PyDict(<<>>), PyDict(ParamP)>>)),
                Pair("parameters", PyList(<<PyDict(ParamP
                    \o Pair("documentation", PyNone))>>)),
                Pair("parameters", PyList(<<PyDict(ParamP
                    \o Pair("documentation", PyStr("pd")))>>))},
        tg \in {<<>>, Pair("tags", PyList(<<LeafA>>)),
                Pair("tags", PyList(<<NodeAB, LeafB>>)),
                Pair("tags", PyDict(Pair("K", LeafA))),
                Pair("tags", PyDict(Pair("", LeafA)))}}

\* name-keyed mappings with two keys, in both orders
MapDocs ==
    {PyDict(Pair("tags", PyDict(Pair(ks[1], c1) \o Pair(ks[2], c2)))) :
        ks \in {<<"", "L">>, <<"K", "">>, <<"K", "L">>},
        c1 \in N0,
        c2 \in {LeafB, NodeAB, PyDict(Pair("tags", PyStr("x"))),
                PyDict(Pair("tags", PyList(<<LeafA, LeafB>>)))}}

FlaggedChild ==
    PyDict(Pair("name", PyStr("B")) \o Pair("alarms", PyList(<<PyDict(<<>>)>>))
           \o Pair("historyEnabled", PyBool(TRUE)))

\* one node with every combination of the keys the flags read
FlagDocs ==
    {PyDict(Pair("tags", PyList(<<
        PyDict(Pair("name", PyStr("A")) \o doc \o al \o ac \o he \o hd \o hp
               \o ch)>>))) :
        doc \in {<<>>, Pair("documentation", PyNone),
                 Pair("documentation", PyStr("")),
                 Pair("documentation", PyStr("d"))},
        al \in {<<>>, Pair("alarms", PyList(<<>>)),
                Pair("alarms", PyList(<<PyDict(<<>>)>>))},
        ac \in {<<>>, Pair("alarmConfig", PyDict(<<>>)),
                Pair("alarmConfig", PyDict(Pair("x", PyInt(1))))},
        he \in {<<>>, Pair("historyEnabled", PyBool(FALSE)),
                Pair("historyEnabled", PyBool(TRUE)),
                Pair("historyEnabled", PyStr("false"))},
        hd \in {<<>>, Pair("historicalDeadband", PyInt(0))},
        hp \in {<<>>, Pair("historyProvider", PyNone)},
        ch \in {<<>>, Pair("tags", PyList(<<LeafB>>)),
                Pair("tags", PyList(<<FlaggedChild>>))}}

Docs == TreeDocs \cup RootDocs \cup MapDocs \cup FlagDocs
        \cup {PyList(<<LeafA>>), PyStr("x")}

(***************************************************************************)
(* Decoder actions (main of extract_udt_tags.py).                          *)
(***************************************************************************)
InitDecoder ==
    /\ pipeline = "decoder"
    /\ pc = "start"
    /\ \/ jsonIn \in {[exists |-> TRUE, valid |-> TRUE, data |-> d] :
                         d \in Docs}
       \/ jsonIn \in {[exists |-> e, valid |-> FALSE, data |-> PyNone] :
                         e \in BOOLEAN}
    /\ flat = <<>>
    /\ report = [kind |-> "none"]
    /\ status = "running"
    /\ excel = [exists |-> FALSE, readable |-> FALSE, rows |-> <<>>]
    /\ udtName = ""
    /\ df = <<>>
    /\ idx = 0
    /\ tags = <<>>
    /\ outFile0 = NoFile
    /\ outFile = NoFile

\* the decoder is run on the file the encoder just wrote
DecodeOutput ==
    /\ pipeline = "encoder" /\ pc \in {"done", "exit"}
    /\ outFile.kind = "json"
    /\ pipeline' = "decoder"
    /\ pc' = "start"
    /\ status' = "running"
    /\ jsonIn' = [exists |-> TRUE, valid |-> outFile.complete,
                  data |-> IF outFile.complete THEN json_load(outFile)
                           ELSE PyNone]
    /\ UNCHANGED <<excel, udtName, df, idx, tags, outFile, outFile0, flat,
                   report>>

\* if not Path(input_file).exists(): print(...); sys.exit(1)
DecNotFound ==
    /\ pipeline = "decoder" /\ pc = "start"
    /\ ~jsonIn.exists
    /\ pc' = "exit"
    /\ status' = "exit1"
    /\ UNCHANGED <<pipeline, excel, udtName, df, idx, tags, outFile, outFile0,
                   jsonIn, flat, report>>

\* json.load raises: the exception is not caught, the interpreter exits 1
DecMalformed ==
    /\ pipeline = "decoder" /\ pc = "start"
    /\ jsonIn.exists /\ ~jsonIn.valid
    /\ pc' = "exit"
    /\ status' = "exit1"
    /\ UNCHANGED <<pipeline, excel, udtName, df, idx, tags, outFile, outFile0,
                   jsonIn, flat, report>>

\* tags = parse_udt_file(input_file)
ParseUdtFile ==
    /\ pipeline = "decoder" /\ pc = "start"
    /\ jsonIn.exists /\ jsonIn.valid
    /\ flat' = extract_tags(jsonIn.data, "")
    /\ pc' = "parsed"
    /\ UNCHANGED <<pipeline, excel, udtName, df, idx, tags, outFile, outFile0,
                   jsonIn, status, report>>

\* print_tags(tags); print total
PrintTags ==
    /\ pipeline = "decoder" /\ pc = "parsed"
    /\ report' = print_tags(flat)
    /\ pc' = "done"
    /\ status' = "exit0"
    /\ UNCHANGED <<pipeline, excel, udtName, df, idx, tags, outFile, outFile0,
                   jsonIn, flat>>

\* export_to_csv(tags, csv_file), when --csv and a destination are given
ExportToCsv ==
    /\ pipeline = "decoder" /\ pc = "parsed"
    /\ report' = export_to_csv(flat)
    /\ pc' = "done"
    /\ status' = "exit0"
    /\ UNCHANGED <<pipeline, excel, udtName, df, idx, tags, outFile, outFile0,
                   jsonIn, flat>>

(***************************************************************************)
(* Specification.                                                          *)
(***************************************************************************)
Init == InitEncoder \/ InitDecoder

Next ==
    \/ ReadExcel
    \/ ReadExcelNotFound
    \/ ReadExcelError
    \/ ProcessRow
    \/ OpenFails
    \/ WriteOutput
    \/ WriteOutputFails
    \/ DecodeOutput
    \/ DecNotFound
    \/ DecMalformed
    \/ ParseUdtFile
    \/ PrintTags
    \/ ExportToCsv

Spec == Init /\ [][Next]_vars


(***************************************************************************)
(* Reference definitions used by the properties below.                     *)
(***************************************************************************)
IsNamed(row) == row.name.t # "nan"

RECURSIVE NamedRows(_)
NamedRows(rows) ==
    IF rows = <<>> THEN <<>>
    ELSE IF IsNamed(Head(rows)) THEN <<Head(rows)>> \o NamedRows(Tail(rows))
    ELSE NamedRows(Tail(rows))

\* the rows the loop has consumed so far that carry a name
Consumed == NamedRows(SubSeq(df, 1, idx))

PreferredOrder ==
    <<"valueSource", "dataType", "documentation", "name", "tagType",
      "engUnit", "alarms", "Metadata", "historyEnabled", "historySampleRate",
      "historySampleRateUnits">>

Rank(key) == CHOOSE k \in 1..Len(PreferredOrder) : PreferredOrder[k] = key

\* C1: the keys of every TagRecord built by excel_to_json appear in the
\* fixed order valueSource, dataType, documentation, name, tagType, engUnit,
\* alarms, Metadata, historyEnabled, historySampleRate,
\* historySampleRateUnits, absent keys skipped.
C1_KeyOrder ==
    \A t \in 1..Len(tags) :
        \A a, b \in 1..Len(tags[t]) :
            a < b => Rank(tags[t][a][1]) < Rank(tags[t][b][1])

\* C2: an encoder run that ends in a fatal failure ends with a non-zero
\* status and leaves the output file untouched or absent.
C2_NoPartialOutput ==
    (pipeline = "encoder" /\ pc = "exit") =>
        /\ status = "exit1"
        /\ (outFile = outFile0 \/ ~outFile.exists)

\* C3: the tags list holds exactly one TagRecord per row with a name, in
\* input order, and none for nameless rows; its length is the number of
\* named rows; a nameless row raises no error.
C3_OneTagPerNamedRow ==
    /\ Len(tags) = Len(Consumed)
    /\ \A k \in 1..Len(tags) :
           Get(tags[k], "name", PyNone) = PyStr(Cat(StrChars(Consumed[k].name)))
    /\ (pipeline = "encoder" /\ pc = "loop") => status = "running"
    /\ (pipeline = "encoder" /\ pc = "done") =>
           /\ idx = Len(df)
           /\ Consumed = NamedRows(excel.rows)

C3_Witness ==
    /\ pipeline = "encoder" /\ pc = "done"
    /\ Len(df) = 2 /\ Len(tags) = 1
    /\ ~IsNamed(df[1]) /\ IsNamed(df[2])

\* the value the claim gives to one token of stateValues
ClaimedStateValue(token) ==
    LET raw == Strip(token)
    IN  IF StrLower(raw) \in TrueWords THEN PyBool(TRUE)
        ELSE IF StrLower(raw) \in FalseWords THEN PyBool(FALSE)
        ELSE PyStr(Cat(raw))

\* C4: with shortDescription, stateLabels and stateValues present,
\* Metadata.states has min(#labels, #values) elements, the i-th with the
\* i-th label trimmed and the i-th value coerced by the boolean vocabulary,
\* any other token kept as the raw trimmed string; states is attached only
\* if at least one pair resulted.
C4_StatesTable ==
    \A k \in 1..Min(Len(tags), Len(Consumed)) :
        LET row == Consumed[k]
        IN  (notna(row.shortDescription) /\ notna(row.stateLabels)
             /\ notna(row.stateValues)) =>
                LET labels == Split(StrChars(row.stateLabels))
                    values == Split(StrChars(row.stateValues))
                    n == Min(Len(labels), Len(values))
                    md == Get(tags[k], "Metadata", PyDict(<<>>)).v
                    states == Get(md, "states", PyList(<<>>)).v
                IN  /\ Has(tags[k], "Metadata")
                    /\ Has(md, "states") <=> n >= 1
                    /\ Len(states) = n
                    /\ \A j \in 1..Len(states) :
                           /\ Get(states[j].v, "label", PyNone)
                                  = PyStr(Cat(Strip(labels[j])))
                           /\ Get(states[j].v, "value", PyNone)
                                  = ClaimedStateValue(values[j])

\* C5: historyEnabled is the string "true" exactly when the row's
\* historyEnabled is present, whatever its content; historySampleRate is
\* present only when historyEnabled is present and the sample rate coerces
\* to an integer; a failed coercion drops only that key, not the tag, and
\* raises no error.
C5_Historization ==
    /\ Len(tags) = Len(Consumed)
    /\ \A k \in 1..Min(Len(tags), Len(Consumed)) :
           LET row == Consumed[k]
           IN  /\ Has(tags[k], "historyEnabled") <=> notna(row.historyEnabled)
               /\ Has(tags[k], "historyEnabled") =>
                      Get(tags[k], "historyEnabled", PyNone) = PyStr("true")
               /\ Has(tags[k], "historySampleRate") =>
                      /\ notna(row.historyEnabled)
                      /\ notna(row.historySampleRate)
                      /\ IntCoerce(row.historySampleRate).ok
                      /\ Get(tags[k], "historySampleRate", PyNone).t = "num"
    /\ (pipeline = "encoder" /\ pc = "loop") => status = "running"

C5_Witness ==
    /\ pipeline = "encoder" /\ pc = "done" /\ status = "exit0"
    /\ Len(tags) = 1 /\ Len(Consumed) = 1
    /\ Consumed[1].historyEnabled = Txt(<<"x">>)
    /\ Consumed[1].historySampleRate = Txt(<<"a","b","c">>)
    /\ Get(tags[1], "historyEnabled", PyNone) = PyStr("true")
    /\ ~Has(tags[1], "historySampleRate")


(***************************************************************************)
(* Reference walk of a document, as the claims describe it.  `mode` says   *)
(* which parts follow the claims' wording (TRUE) and which follow the      *)
(* code's own helpers (FALSE): names |-> the effective name, paths |-> the *)
(* joining of parent path and name.                                        *)
(***************************************************************************)
NoParent == [has |-> FALSE, path |-> ""]

RefName(d, key, mode) ==
    IF mode.names
    THEN IF key.t = "str" THEN key.v
         ELSE IF Has(d, "name") THEN Format(Get(d, "name", PyNone))
         ELSE "Unknown"
    ELSE Format(tag_name_of(d, key))

RefPath(parent, name, mode) ==
    IF mode.paths
    THEN IF parent.has THEN parent.path \o "/" \o name ELSE name
    ELSE full_path(parent.path, PyStr(name))

RECURSIVE RefNode(_, _, _, _)
RECURSIVE RefList(_, _, _)
RECURSIVE RefItems(_, _, _)

RefList(l, parent, mode) ==
    IF l = <<>> THEN <<>>
    ELSE RefNode(Head(l).v, parent, PyNone, mode)
         \o RefList(Tail(l), parent, mode)

RefItems(items, parent, mode) ==
    IF items = <<>> THEN <<>>
    ELSE RefNode(Head(items)[2].v, parent, PyStr(Head(items)[1]), mode)
         \o RefItems(Tail(items), parent, mode)

RefChildren(d, parent, mode) ==
    IF Has(d, "tags") /\ Get(d, "tags", PyNone).t = "list"
    THEN RefList(Get(d, "tags", PyNone).v, parent, mode)
    ELSE IF Has(d, "tags") /\ Get(d, "tags", PyNone).t = "dict"
    THEN RefItems(Get(d, "tags", PyNone).v, parent, mode)
    ELSE <<>>

RefNode(d, parent, key, mode) ==
    LET path == RefPath(parent, RefName(d, key, mode), mode)
    IN  <<[kind |-> "tag", node |-> d, path |-> path]>>
        \o RefChildren(d, [has |-> TRUE, path |-> path], mode)

RefParams(d) ==
    IF Has(d, "parameters") /\ Get(d, "parameters", PyNone).t = "list"
    THEN LET ps == Get(d, "parameters", PyNone).v
         IN  [k \in 1..Len(ps) |->
                [kind |-> "param", node |-> ps[k].v,
                 path |-> "[PARAM]"
                          \o Format(Get(ps[k].v, "name", PyStr("Unknown")))]]
    ELSE <<>>

RefType(d, mode) ==
    IF Has(d, "typeId") \/ Has(d, "tagType")
    THEN RefNode(d, NoParent, PyNone, mode)
    ELSE <<>>

\* tags trigger, then parameters trigger, then type trigger
RefRoot(doc, mode) ==
    IF doc.t = "dict"
    THEN RefChildren(doc.v, NoParent, mode) \o RefParams(doc.v)
         \o RefType(doc.v, mode)
    ELSE <<>>

Decoded == pipeline = "decoder" /\ pc \in {"parsed", "done"}

PathsOf(entries) == [k \in 1..Len(entries) |-> entries[k].tag]
RefPathsOf(ref) == [k \in 1..Len(ref) |-> ref[k].path]

\* C6: the tag tree under a tags key is emitted in depth-first pre-order,
\* one entry per node, the parent before its descendants, siblings in
\* order, each child's path being its parent's path, "/", and the child's
\* name, with no separator only when there is no parent.
C6_PreOrderPaths ==
    (Decoded /\ jsonIn.data.t = "dict") =>
        LET ref == RefChildren(jsonIn.data.v, NoParent,
                               [names |-> FALSE, paths |-> TRUE])
        IN  /\ Len(flat) >= Len(ref)
            /\ SubSeq(PathsOf(flat), 1, Len(ref)) = RefPathsOf(ref)

ClaimedAlarm(d) ==
    IF \/ /\ Has(d, "alarms")
          /\ Get(d, "alarms", PyNone).t = "list"
          /\ Len(Get(d, "alarms", PyList(<<>>)).v) > 0
       \/ /\ Has(d, "alarmConfig")
          /\ Truthy(Get(d, "alarmConfig", PyNone))
    THEN "Yes" ELSE "No"

ClaimedHistory(d) ==
    IF \/ /\ Has(d, "historyEnabled")
          /\ Truthy(Get(d, "historyEnabled", PyNone))
       \/ Has(d, "historicalDeadband")
       \/ Has(d, "historyProvider")
    THEN "Yes" ELSE "No"

AllCode == [names |-> FALSE, paths |-> FALSE]

C8_Documentation ==
    Decoded =>
        LET ref == RefRoot(jsonIn.data, AllCode)
        IN  /\ Len(flat) = Len(ref)
            /\ \A k \in 1..Min(Len(flat), Len(ref)) :
                   /\ flat[k].documentation.t = "str"
                   /\ flat[k].documentation =
                          IF Get(ref[k].node, "documentation", PyNone).t = "str"
                          THEN Get(ref[k].node, "documentation", PyNone)
                          ELSE PyStr("")

\* C9: at the root the tags, parameters and type triggers fire
\* independently and their entries are concatenated in that order; a root
\* with tags and tagType gives the tags entries, then the root's entry and
\* the descendants again under the root's path.  Decoding the document the
\* encoder wrote for n named rows gives 2n+1 entries: the n tag names, the
\* UDT name, then the n paths UDT-name/tag-name.
C9_RootTriggers ==
    /\ Decoded =>
           PathsOf(flat)
               = RefPathsOf(RefRoot(jsonIn.data,
                                    [names |-> FALSE, paths |-> TRUE]))
    /\ (Decoded /\ outFile.kind = "json") =>
           LET n == Len(Consumed)
               nameOf(k) == Cat(StrChars(Consumed[k].name))
           IN  /\ Len(flat) = 2 * n + 1
               /\ \A k \in 1..Min(n, Len(flat)) : flat[k].tag = nameOf(k)
               /\ Len(flat) > n => flat[n + 1].tag = udtName
               /\ \A k \in 1..n :
                      Len(flat) >= n + 1 + k =>
                          flat[n + 1 + k].tag = udtName \o "/" \o nameOf(k)

\* C10: a child of a name-keyed tags mapping always takes the mapping key
\* as its effective name, the empty key included, whatever name the node
\* itself carries; the node's name is used only in list form, "Unknown"
\* only when that is absent too.
C10_MappingKeyName ==
    Decoded =>
        PathsOf(flat)
            = RefPathsOf(RefRoot(jsonIn.data,
                                 [names |-> TRUE, paths |-> FALSE]))


====
